---- MODULE Spec2Model ----
(***************************************************************************)
(* A model of the module runtime of module-rt: the Module Context          *)
(* (bootstrap.rs, ModuleContext), its Links (port.rs, ModulePort), the     *)
(* Service Staging Pool (bootstrap.rs, ExportingServicePool) and the       *)
(* entry-point driver (bootstrap.rs, start / create_foundry_module).       *)
(*                                                                         *)
(* Calls of the coordinator are served by worker threads.  A method of    *)
(* the Module Context takes &mut self, so two of them never overlap; a     *)
(* method of a Link runs under the write lock of that Link.  A fault is a  *)
(* panic of the handler: the locks it holds are released by the unwinding  *)
(* and everything it assigned before the panic stays assigned.             *)
(*                                                                         *)
(* Where a claim is about what the user module sees, the user module is    *)
(* the ModuleA of the tests (tests/integration_test.rs, tests/multiple.rs) *)
(* and the coordinator is the test function that drives it.                *)
(***************************************************************************)
EXTENDS Integers, Sequences, FiniteSets, TLC

\* ------------------------------------------------------------------ bounds
NumThreads == 2
NumNames == 2
MaxPool == 1
MaxIds == 1
MaxSlots == 1
MaxInstances == 2
MaxPortObjs == 2
MaxStaged == 2
MaxWanted == 2
MaxImported == 2
MaxBatch == 2
Test1N == 3

Threads == 1..NumThreads
Names == 1..NumNames

VARIABLES
  origin,             \* which constructor built the Module Context
  user_context,       \* ModuleContext.user_context: 0 is None, k the k-th instance
  next_inst,          \* number of user module instances constructed so far
  pool,               \* ExportingServicePool.pool: the staged objects, in order
  exported,           \* staged indices some Link has exported since the last load
  imported,           \* per instance, what its import callback has recorded
  user_arg,           \* per instance, the argument it was constructed from
  ports,              \* ModuleContext.ports: name -> Link id, 0 is absent
  portObjs,           \* the ModulePort objects ever allocated, by id
  bootstrap_finished, \* ModuleContext.bootstrap_finished
  main_pc,            \* position of the thread that runs start()
  pc,                 \* position of each worker thread
  call,               \* the call each worker thread is serving
  ev                  \* the step taken last

vars == <<origin, user_context, next_inst, pool, exported, imported, user_arg, ports,
          portObjs, bootstrap_finished, main_pc, pc, call, ev>>

ctxVars == <<user_context, next_inst, pool, exported, imported, user_arg, ports,
             portObjs, bootstrap_finished>>

\* ----------------------------------------------------------------- helpers
NoCall == [op |-> "none", port |-> 0, arg |-> <<>>, i |-> 0, arc |-> 0, out |-> <<>>]

\* a step of a Link method (port is the Link) or of a Module Context method
\* (port is 0); a returning step names the argument list the caller passed
\* (arg) and the value it gets back (val)
LinkEvVal(p, op, step, res, arg, val) ==
  [op |-> op, step |-> step, res |-> res, port |-> p, arg |-> arg, val |-> val]

LinkEv(p, op, step, res) == LinkEvVal(p, op, step, res, <<>>, <<>>)

Ev(op, step, res) == LinkEv(0, op, step, res)

\* export_service_into_handle: the Capability Handle of a staged object,
\* registered in the RPC context of Link p
Handle(p, obj) == [port |-> p, obj |-> obj]

\* The transport ends a coordinator hands to Link initialize.  ExtEnd is an
\* end whose other end goes to a Link of another module; IntraEnds are the
\* two ends Intra::arguments_for_both_ends() makes, both handed to Links of
\* this module.
ExtEnd == 1
IntraEnds == {2, 3}

\* a Link as ModulePort::new leaves it (ipc 0: no transport)
NewPort(name, user, exposed) ==
  [name |-> name, user |-> user, rto |-> FALSE, gc |-> FALSE,
   cleared |-> FALSE, exposed |-> exposed, ipc |-> 0]

\* a slot a coordinator passes to import: a name and a Capability Handle
Slot(name, handle) == [name |-> name, handle |-> handle]

\* a handle exported by a Link of another module (Link 0), and a slot with it
ExtHandle == [port |-> 0, obj |-> <<0, 0>>]
ExtSlot == Slot(0, ExtHandle)

\* mutant of Load: the staged objects are stored in reverse
Load_reversed(inst, n) == [i \in 1..n |-> <<inst, n - i>>]

\* ExportingServicePool::load: one staged object per descriptor, in order
Load(inst, n) == [i \in 1..n |-> <<inst, i - 1>>]

\* ExportingServicePool::export: the index addresses an occupied slot
PoolHas(index) == index < Len(pool)

\* the bounded sequences over S
RECURSIVE SeqsUpTo(_, _)
SeqsUpTo(S, n) ==
  IF n = 0 THEN {<<>>}
  ELSE LET shorter == SeqsUpTo(S, n - 1)
       IN shorter \cup {Append(s, x) : s \in {q \in shorter : Len(q) = n - 1}, x \in S}

\* the iteration orders HashMap::values may produce over a set of Links
Orders(S) ==
  {s \in SeqsUpTo(S, Cardinality(S)) :
     Len(s) = Cardinality(S) /\ \A i, j \in 1..Len(s) : i # j => s[i] # s[j]}

Registered == {ports[n] : n \in {m \in Names : ports[m] # 0}}

\* the &mut self of a running Module Context method
CtxPcs ==
  {"debug_lock", "debug_cb", "debug_rpc", "sd_disable", "sd_clear", "sd_drop", "sd_send"}
CtxLocked == \E t \in Threads : pc[t] \in CtxPcs

\* mutant of PortLocked: shutdown keeps the write guards of its first pass
PortLocked_keptByShutdown(p) ==
  \/ \E t \in Threads : pc[t] # "idle" /\ call[t].port = p
  \/ \E t \in Threads : pc[t] = "sd_clear" /\ \E i \in 1..Len(call[t].arg) : call[t].arg[i] = p

\* the write lock of a Link, held by the Link method in progress
PortLocked(p) == \E t \in Threads : pc[t] # "idle" /\ call[t].port = p

\* a callback of the user module is executing: debug (debug_rpc while it
\* waits for the answer to a call it made through a proxy) or import_service
CallbackPcs == {"debug_cb", "debug_rpc", "im_cb"}

\* mutant of UserLocked: an import callback holds the lock shared, so that
\* only debug excludes others
UserLocked_sharedByImport(k) ==
  \E t \in Threads : pc[t] \in {"debug_cb", "debug_rpc"} /\ call[t].arc = k

\* the mutex around the user module instance
UserLocked(k) == \E t \in Threads : pc[t] \in CallbackPcs /\ call[t].arc = k

\* the strong count of instance k is not zero
Alive(k) ==
  /\ k # 0
  /\ \/ user_context = k
     \/ \E t \in Threads : pc[t] \in {"im_lock", "im_cb"} /\ call[t].arc = k

\* the receiving end of the shutdown channel still exists
ReceiverAlive == origin = "start" /\ main_pc # "exited"

\* calls are dispatched as long as the module is exposed to its caller
Serving == origin = "create_foundry_module" \/ main_pc # "exited"

\* a call is dispatched to a free worker; free workers are interchangeable
Idle(t) ==
  /\ pc[t] = "idle"
  /\ \A u \in Threads : u < t => pc[u] # "idle"
  /\ Serving

Done(t, e) ==
  /\ pc' = [pc EXCEPT ![t] = "idle"]
  /\ call' = [call EXCEPT ![t] = NoCall]
  /\ ev' = e

\* The greetings of the tests (tests/integration_test.rs): 1 is "Annyeong",
\* 2 is "Konnichiwa".  The argument of a user module is the pair (my
\* greeting, the others' greeting); ModuleArg is what test1 gives its first
\* module, PeerArg what it gives the second, the module at the other end of
\* an ExtEnd.
Greetings == {1, 2}
ModuleArg == <<1, 2>>
PeerArg == <<2, 1>>

\* the arguments a coordinator may give: the own greeting with either one
ModuleArgs == {<<ModuleArg[1], g>> : g \in Greetings}

\* -------------------------------------------------------------------- Init
Init ==
  /\ origin \in {"start", "create_foundry_module"}
  /\ \E n \in 0..MaxPool :
       IF origin = "start"
       THEN user_context = 0 /\ next_inst = 0 /\ pool = <<>>
       ELSE user_context = 1 /\ next_inst = 1 /\ pool = Load(1, n)
  /\ exported = {}
  /\ imported = [k \in 1..MaxInstances |-> <<>>]
  /\ user_arg = [k \in 1..MaxInstances |->
                   IF origin = "create_foundry_module" /\ k = 1 THEN ModuleArg ELSE <<>>]
  /\ ports = [n \in Names |-> 0]
  /\ portObjs = <<>>
  /\ bootstrap_finished = FALSE
  /\ main_pc = IF origin = "start" THEN "waiting" ELSE "none"
  /\ pc = [t \in Threads |-> "idle"]
  /\ call = [t \in Threads |-> NoCall]
  /\ ev = Ev("init", "-", "-")

\* ---------------------------------------------------------- Module Context
\* mutant of Initialize: the assert on user_context is missing
Initialize_noAssert(t, arg, n) ==
  /\ Idle(t) /\ ~CtxLocked
  /\ next_inst < MaxInstances
  /\ next_inst' = next_inst + 1
  /\ user_context' = next_inst + 1
  /\ user_arg' = [user_arg EXCEPT ![next_inst + 1] = arg]
  /\ pool' = Load(next_inst + 1, n)
  /\ exported' = {}
  /\ Done(t, Ev("initialize", "return", "ok"))
  /\ UNCHANGED <<origin, imported, ports, portObjs, bootstrap_finished, main_pc>>

\* ModuleContext::initialize
Initialize(t, arg, n) ==
  /\ Idle(t) /\ ~CtxLocked
  /\ IF user_context # 0
     THEN /\ Done(t, Ev("initialize", "assert", "fault"))
          /\ UNCHANGED <<origin, ctxVars, main_pc>>
     ELSE /\ next_inst < MaxInstances
          /\ next_inst' = next_inst + 1
          /\ user_context' = next_inst + 1
          /\ user_arg' = [user_arg EXCEPT ![next_inst + 1] = arg]
          /\ pool' = Load(next_inst + 1, n)
          /\ exported' = {}
          /\ Done(t, Ev("initialize", "return", "ok"))
          /\ UNCHANGED <<origin, imported, ports, portObjs, bootstrap_finished, main_pc>>

\* mutant of CreatePort: the result of insert is not asserted
CreatePort_silentReplace(t, name) ==
  /\ Idle(t) /\ ~CtxLocked
  /\ IF bootstrap_finished
     THEN /\ Done(t, Ev("create_port", "assert_bootstrap", "fault"))
          /\ UNCHANGED <<origin, ctxVars, main_pc>>
     ELSE IF user_context = 0
     THEN /\ Done(t, Ev("create_port", "unwrap", "fault"))
          /\ UNCHANGED <<origin, ctxVars, main_pc>>
     ELSE /\ Len(portObjs) < MaxPortObjs
          /\ portObjs' = Append(portObjs, NewPort(name, user_context, TRUE))
          /\ ports' = [ports EXCEPT ![name] = Len(portObjs) + 1]
          /\ Done(t, Ev("create_port", "return", "ok"))
          /\ UNCHANGED <<origin, user_context, next_inst, pool, exported, imported, user_arg,
                         bootstrap_finished, main_pc>>

\* mutant of CreatePort: bootstrap_finished is not asserted
CreatePort_afterBootstrap(t, name) ==
  /\ Idle(t) /\ ~CtxLocked
  /\ IF user_context = 0
     THEN /\ Done(t, Ev("create_port", "unwrap", "fault"))
          /\ UNCHANGED <<origin, ctxVars, main_pc>>
     ELSE /\ Len(portObjs) < MaxPortObjs
          /\ portObjs' = Append(portObjs, NewPort(name, user_context, ports[name] = 0))
          /\ ports' = [ports EXCEPT ![name] = Len(portObjs) + 1]
          /\ Done(t, IF ports[name] = 0
                      THEN Ev("create_port", "return", "ok")
                      ELSE Ev("create_port", "assert_insert", "fault"))
          /\ UNCHANGED <<origin, user_context, next_inst, pool, exported, imported, user_arg,
                         bootstrap_finished, main_pc>>

\* mutant of CreatePort: without a user instance the Link is given a weak
\* reference to nothing instead of the unwrap
CreatePort_danglingWeak(t, name) ==
  /\ Idle(t) /\ ~CtxLocked
  /\ IF bootstrap_finished
     THEN /\ Done(t, Ev("create_port", "assert_bootstrap", "fault"))
          /\ UNCHANGED <<origin, ctxVars, main_pc>>
     ELSE /\ Len(portObjs) < MaxPortObjs
          /\ portObjs' = Append(portObjs, NewPort(name, user_context, ports[name] = 0))
          /\ ports' = [ports EXCEPT ![name] = Len(portObjs) + 1]
          /\ Done(t, IF ports[name] = 0
                      THEN Ev("create_port", "return", "ok")
                      ELSE Ev("create_port", "assert_insert", "fault"))
          /\ UNCHANGED <<origin, user_context, next_inst, pool, exported, imported, user_arg,
                         bootstrap_finished, main_pc>>

\* ModuleContext::create_port
CreatePort(t, name) ==
  /\ Idle(t) /\ ~CtxLocked
  /\ IF bootstrap_finished
     THEN /\ Done(t, Ev("create_port", "assert_bootstrap", "fault"))
          /\ UNCHANGED <<origin, ctxVars, main_pc>>
     ELSE IF user_context = 0
     THEN /\ Done(t, Ev("create_port", "unwrap", "fault"))
          /\ UNCHANGED <<origin, ctxVars, main_pc>>
     ELSE /\ Len(portObjs) < MaxPortObjs
          /\ portObjs' = Append(portObjs, NewPort(name, user_context, ports[name] = 0))
          /\ ports' = [ports EXCEPT ![name] = Len(portObjs) + 1]
          /\ Done(t, IF ports[name] = 0
                      THEN Ev("create_port", "return", "ok")
                      ELSE Ev("create_port", "assert_insert", "fault"))
          /\ UNCHANGED <<origin, user_context, next_inst, pool, exported, imported, user_arg,
                         bootstrap_finished, main_pc>>

\* mutant of FinishBootstrap: bootstrap_finished is not asserted
FinishBootstrap_noAssert(t) ==
  /\ Idle(t) /\ ~CtxLocked
  /\ pool' = <<>>
  /\ exported' = {}
  /\ bootstrap_finished' = TRUE
  /\ Done(t, Ev("finish_bootstrap", "return", "ok"))
  /\ UNCHANGED <<origin, imported, user_arg, user_context, next_inst, ports, portObjs, main_pc>>

\* mutant of FinishBootstrap: the pool is asserted to be empty before it is
\* cleared, although export leaves the slots occupied
FinishBootstrap_requireEmpty(t) ==
  /\ Idle(t) /\ ~CtxLocked
  /\ IF pool # <<>> \/ bootstrap_finished
     THEN /\ Done(t, Ev("finish_bootstrap", "assert", "fault"))
          /\ UNCHANGED <<pool, exported, bootstrap_finished>>
     ELSE /\ pool' = <<>>
          /\ exported' = {}
          /\ bootstrap_finished' = TRUE
          /\ Done(t, Ev("finish_bootstrap", "return", "ok"))
  /\ UNCHANGED <<origin, imported, user_arg, user_context, next_inst, ports, portObjs, main_pc>>

\* ModuleContext::finish_bootstrap
FinishBootstrap(t) ==
  /\ Idle(t) /\ ~CtxLocked
  /\ pool' = <<>>
  /\ exported' = {}
  /\ IF bootstrap_finished
     THEN /\ Done(t, Ev("finish_bootstrap", "assert", "fault"))
          /\ UNCHANGED bootstrap_finished
     ELSE /\ bootstrap_finished' = TRUE
          /\ Done(t, Ev("finish_bootstrap", "return", "ok"))
  /\ UNCHANGED <<origin, imported, user_arg, user_context, next_inst, ports, portObjs, main_pc>>

\* ModuleContext::debug: the call and the unwrap of user_context
DebugCall(t) ==
  /\ Idle(t) /\ ~CtxLocked
  /\ IF user_context = 0
     THEN Done(t, Ev("debug", "unwrap", "fault"))
     ELSE /\ pc' = [pc EXCEPT ![t] = "debug_lock"]
          /\ call' = [call EXCEPT ![t] = [NoCall EXCEPT !.op = "debug", !.arc = user_context]]
          /\ ev' = Ev("debug", "call", "-")
  /\ UNCHANGED <<origin, ctxVars, main_pc>>

\* ModuleContext::debug: lock() of the user module, then the callback runs
DebugLock(t) ==
  /\ pc[t] = "debug_lock"
  /\ ~UserLocked(call[t].arc)
  /\ pc' = [pc EXCEPT ![t] = "debug_cb"]
  /\ ev' = Ev("debug", "lock", "-")
  /\ UNCHANGED <<origin, ctxVars, main_pc, call>>

\* ModuleContext::debug: the callback returns and the guard is dropped
DebugReturn(t) ==
  /\ pc[t] = "debug_cb"
  /\ Done(t, Ev("debug", "return", "ok"))
  /\ UNCHANGED <<origin, ctxVars, main_pc>>

\* mutant of ShutdownCall: shutdown asserts that bootstrap is finished
ShutdownCall_requireBootstrap(t) ==
  /\ Idle(t) /\ ~CtxLocked
  /\ IF ~bootstrap_finished
     THEN Done(t, Ev("shutdown", "assert_bootstrap", "fault"))
     ELSE /\ \E order \in Orders(Registered) :
               call' = [call EXCEPT ![t] =
                          [NoCall EXCEPT !.op = "shutdown", !.arg = order, !.i = 1]]
          /\ pc' = [pc EXCEPT ![t] = IF Registered = {} THEN "sd_drop" ELSE "sd_disable"]
          /\ ev' = Ev("shutdown", "call", "-")
  /\ UNCHANGED <<origin, ctxVars, main_pc>>

\* ModuleContext::shutdown: the call; the map is iterated in some order
ShutdownCall(t) ==
  /\ Idle(t) /\ ~CtxLocked
  /\ \E order \in Orders(Registered) :
       call' = [call EXCEPT ![t] = [NoCall EXCEPT !.op = "shutdown", !.arg = order, !.i = 1]]
  /\ pc' = [pc EXCEPT ![t] = IF Registered = {} THEN "sd_drop" ELSE "sd_disable"]
  /\ ev' = Ev("shutdown", "call", "-")
  /\ UNCHANGED <<origin, ctxVars, main_pc>>

\* ModulePort::get_rto_context, called by both passes of shutdown: the
\* accessor unwraps rto_context, as ModulePort::shutdown does
HasRtoContext(p) == portObjs[p].rto

\* where a pass of shutdown goes after the Link at position i
AfterLink(t, next) ==
  IF call[t].i < Len(call[t].arg)
  THEN /\ call' = [call EXCEPT ![t].i = @ + 1]
       /\ UNCHANGED pc
  ELSE /\ call' = [call EXCEPT ![t].i = 1]
       /\ pc' = [pc EXCEPT ![t] = next]

\* mutant of ShutdownDisable: each Link is disabled and cleared in one pass
ShutdownDisable_perLink(t) ==
  /\ pc[t] = "sd_disable"
  /\ LET p == call[t].arg[call[t].i] IN
       /\ ~PortLocked(p)
       /\ IF ~HasRtoContext(p)
          THEN /\ Done(t, Ev("shutdown", "disable", "fault"))
               /\ UNCHANGED portObjs
          ELSE /\ portObjs' = [portObjs EXCEPT ![p].gc = FALSE, ![p].cleared = TRUE]
               /\ AfterLink(t, "sd_drop")
               /\ ev' = Ev("shutdown", "clear", "-")
  /\ UNCHANGED <<origin, user_context, next_inst, pool, exported, imported, user_arg, ports,
                 bootstrap_finished, main_pc>>

\* ModuleContext::shutdown, first pass: one Link's tracking is disabled
ShutdownDisable(t) ==
  /\ pc[t] = "sd_disable"
  /\ LET p == call[t].arg[call[t].i] IN
       /\ ~PortLocked(p)
       /\ IF ~HasRtoContext(p)
          THEN /\ Done(t, Ev("shutdown", "disable", "fault"))
               /\ UNCHANGED portObjs
          ELSE /\ portObjs' = [portObjs EXCEPT ![p].gc = FALSE]
               /\ AfterLink(t, "sd_clear")
               /\ ev' = Ev("shutdown", "disable", "-")
  /\ UNCHANGED <<origin, user_context, next_inst, pool, exported, imported, user_arg, ports,
                 bootstrap_finished, main_pc>>

\* ModuleContext::shutdown, second pass: one Link's registry is cleared
ShutdownClear(t) ==
  /\ pc[t] = "sd_clear"
  /\ LET p == call[t].arg[call[t].i] IN
       /\ ~PortLocked(p)
       /\ IF ~HasRtoContext(p)
          THEN /\ Done(t, Ev("shutdown", "clear", "fault"))
               /\ UNCHANGED portObjs
          ELSE /\ portObjs' = [portObjs EXCEPT ![p].cleared = TRUE]
               /\ AfterLink(t, "sd_drop")
               /\ ev' = Ev("shutdown", "clear", "-")
  /\ UNCHANGED <<origin, user_context, next_inst, pool, exported, imported, user_arg, ports,
                 bootstrap_finished, main_pc>>

\* mutant of ShutdownDrop: the Link map is not cleared
ShutdownDrop_keepPorts(t) ==
  /\ pc[t] = "sd_drop"
  /\ IF user_context = 0
     THEN /\ Done(t, Ev("shutdown", "take", "fault"))
          /\ UNCHANGED user_context
     ELSE /\ user_context' = 0
          /\ pc' = [pc EXCEPT ![t] = "sd_send"]
          /\ ev' = Ev("shutdown", "take", "-")
          /\ UNCHANGED call
  /\ UNCHANGED <<origin, next_inst, pool, exported, imported, user_arg, ports, portObjs,
                 bootstrap_finished, main_pc>>

\* ModuleContext::shutdown: user_context.take().unwrap() and ports.clear()
ShutdownDrop(t) ==
  /\ pc[t] = "sd_drop"
  /\ IF user_context = 0
     THEN /\ Done(t, Ev("shutdown", "take", "fault"))
          /\ UNCHANGED <<user_context, ports>>
     ELSE /\ user_context' = 0
          /\ ports' = [n \in Names |-> 0]
          /\ pc' = [pc EXCEPT ![t] = "sd_send"]
          /\ ev' = Ev("shutdown", "take", "-")
          /\ UNCHANGED call
  /\ UNCHANGED <<origin, next_inst, pool, exported, imported, user_arg, portObjs,
                 bootstrap_finished, main_pc>>

\* ModuleContext::shutdown: send() on a channel whose receiver is gone
ShutdownSendFail(t) ==
  /\ pc[t] = "sd_send"
  /\ ~ReceiverAlive
  /\ Done(t, Ev("shutdown", "send", "fault"))
  /\ UNCHANGED <<origin, ctxVars, main_pc>>

\* ----------------------------------------------------------------- start()
\* the threads blocked in send() on the zero-capacity channel
Senders == {t \in Threads : pc[t] = "sd_send"}

\* mutant of RecvReady: recv() does not wait for a message
RecvReady_nonblocking == main_pc = "waiting"

\* recv() of start can complete: a sender is offering the message
RecvReady == main_pc = "waiting" /\ Senders # {}

\* the rendezvous of shutdown's send() with start's recv(): both return
StartRecv ==
  /\ RecvReady
  /\ main_pc' = "returned"
  /\ pc' = [t \in Threads |-> IF t \in Senders THEN "idle" ELSE pc[t]]
  /\ call' = [t \in Threads |-> IF t \in Senders THEN NoCall ELSE call[t]]
  /\ ev' = Ev("shutdown", "send", "ok")
  /\ UNCHANGED <<origin, ctxVars>>

\* start returns: its locals, the receiver among them, are dropped
StartExit ==
  /\ main_pc = "returned"
  /\ main_pc' = "exited"
  /\ ev' = Ev("start", "exit", "-")
  /\ UNCHANGED <<origin, ctxVars, pc, call>>

\* -------------------------------------------------------------- Link (Port)
\* a Link method can be entered: the caller holds the Link, its lock is free
Enter(t, p) ==
  /\ Idle(t)
  /\ p \in 1..Len(portObjs)
  /\ portObjs[p].exposed
  /\ ~PortLocked(p)

\* mutant of PortInitialize: rto_context is not asserted to be unset
PortInitialize_noAssert(t, p, end) ==
  /\ Enter(t, p)
  /\ portObjs' = [portObjs EXCEPT ![p].rto = TRUE, ![p].gc = TRUE, ![p].ipc = end]
  /\ Done(t, LinkEv(p, "port_initialize", "return", "ok"))
  /\ UNCHANGED <<origin, user_context, next_inst, pool, exported, imported, user_arg, ports,
                 bootstrap_finished, main_pc>>

\* ModulePort::initialize
PortInitialize(t, p, end) ==
  /\ Enter(t, p)
  /\ IF portObjs[p].rto
     THEN /\ Done(t, LinkEv(p, "port_initialize", "assert", "fault"))
          /\ UNCHANGED portObjs
     ELSE /\ portObjs' = [portObjs EXCEPT ![p].rto = TRUE, ![p].gc = TRUE, ![p].ipc = end]
          /\ Done(t, LinkEv(p, "port_initialize", "return", "ok"))
  /\ UNCHANGED <<origin, user_context, next_inst, pool, exported, imported, user_arg, ports,
                 bootstrap_finished, main_pc>>

\* ModulePort::export: the call and the unwrap of rto_context
ExportCall(t, p, ids) ==
  /\ Enter(t, p)
  /\ IF ~portObjs[p].rto
     THEN Done(t, LinkEv(p, "export", "unwrap", "fault"))
     ELSE IF ids = <<>>
     THEN Done(t, LinkEvVal(p, "export", "return", "ok", <<>>, <<>>))
     ELSE /\ pc' = [pc EXCEPT ![t] = "ex_loop"]
          /\ call' = [call EXCEPT ![t] =
                        [NoCall EXCEPT !.op = "export", !.port = p, !.arg = ids, !.i = 1]]
          /\ ev' = LinkEv(p, "export", "call", "-")
  /\ UNCHANGED <<origin, ctxVars, main_pc>>

\* mutant of ExportStep: an index the pool does not hold is skipped
ExportStep_skipMissing(t) ==
  /\ pc[t] = "ex_loop"
  /\ LET id == call[t].arg[call[t].i]
         p == call[t].port
         out == IF PoolHas(id) THEN Append(call[t].out, Handle(p, pool[id + 1]))
                ELSE call[t].out IN
       /\ exported' = IF PoolHas(id) THEN exported \cup {id} ELSE exported
       /\ IF call[t].i < Len(call[t].arg)
          THEN /\ call' = [call EXCEPT ![t].i = @ + 1, ![t].out = out]
               /\ ev' = LinkEv(p, "export", "id", "-")
               /\ UNCHANGED pc
          ELSE Done(t, LinkEvVal(p, "export", "return", "ok", call[t].arg, out))
  /\ UNCHANGED <<origin, imported, user_arg, user_context, next_inst, pool, ports, portObjs,
                 bootstrap_finished, main_pc>>

\* mutant of ExportStep: the handles are collected in reverse
ExportStep_reversed(t) ==
  /\ pc[t] = "ex_loop"
  /\ LET id == call[t].arg[call[t].i]
         p == call[t].port IN
       IF ~PoolHas(id)
       THEN /\ Done(t, LinkEv(p, "export", "index", "fault"))
            /\ UNCHANGED exported
       ELSE /\ exported' = exported \cup {id}
            /\ LET out == <<Handle(p, pool[id + 1])>> \o call[t].out IN
                 IF call[t].i < Len(call[t].arg)
                 THEN /\ call' = [call EXCEPT ![t].i = @ + 1, ![t].out = out]
                      /\ ev' = LinkEv(p, "export", "id", "-")
                      /\ UNCHANGED pc
                 ELSE Done(t, LinkEvVal(p, "export", "return", "ok", call[t].arg, out))
  /\ UNCHANGED <<origin, imported, user_arg, user_context, next_inst, pool, ports, portObjs,
                 bootstrap_finished, main_pc>>

\* ModulePort::export: one id is served from the Staging Pool
ExportStep(t) ==
  /\ pc[t] = "ex_loop"
  /\ LET id == call[t].arg[call[t].i]
         p == call[t].port IN
       IF ~PoolHas(id)
       THEN /\ Done(t, LinkEv(p, "export", "index", "fault"))
            /\ UNCHANGED exported
       ELSE /\ exported' = exported \cup {id}
            /\ LET out == Append(call[t].out, Handle(p, pool[id + 1])) IN
                 IF call[t].i < Len(call[t].arg)
                 THEN /\ call' = [call EXCEPT ![t].i = @ + 1, ![t].out = out]
                      /\ ev' = LinkEv(p, "export", "id", "-")
                      /\ UNCHANGED pc
                 ELSE Done(t, LinkEvVal(p, "export", "return", "ok", call[t].arg, out))
  /\ UNCHANGED <<origin, imported, user_arg, user_context, next_inst, pool, ports, portObjs,
                 bootstrap_finished, main_pc>>

\* ModulePort::import: the call; an empty list does nothing
ImportCall(t, p, slots) ==
  /\ Enter(t, p)
  /\ IF slots = <<>>
     THEN Done(t, LinkEv(p, "import", "return", "ok"))
     ELSE /\ pc' = [pc EXCEPT ![t] = "im_upgrade"]
          /\ call' = [call EXCEPT ![t] =
                        [NoCall EXCEPT !.op = "import", !.port = p,
                                       !.arg = slots, !.i = 1]]
          /\ ev' = LinkEv(p, "import", "call", "-")
  /\ UNCHANGED <<origin, ctxVars, main_pc>>

\* ModulePort::import: user_context.upgrade().unwrap() for one slot
ImportUpgrade(t) ==
  /\ pc[t] = "im_upgrade"
  /\ LET p == call[t].port IN
       IF ~Alive(portObjs[p].user)
       THEN Done(t, LinkEv(p, "import", "upgrade", "fault"))
       ELSE /\ pc' = [pc EXCEPT ![t] = "im_lock"]
            /\ call' = [call EXCEPT ![t].arc = portObjs[p].user]
            /\ ev' = LinkEv(p, "import", "upgrade", "-")
  /\ UNCHANGED <<origin, ctxVars, main_pc>>

\* ModulePort::import: lock() of the user module, then rto_context.unwrap()
ImportLock(t) ==
  /\ pc[t] = "im_lock"
  /\ ~UserLocked(call[t].arc)
  /\ LET p == call[t].port IN
       IF ~portObjs[p].rto
       THEN Done(t, LinkEv(p, "import", "unwrap", "fault"))
       ELSE /\ pc' = [pc EXCEPT ![t] = "im_cb"]
            /\ ev' = LinkEv(p, "import", "lock", "-")
            /\ UNCHANGED call
  /\ UNCHANGED <<origin, ctxVars, main_pc>>

\* ModulePort::import: import_service returns; guard and Arc are dropped
ImportReturn(t) ==
  /\ pc[t] = "im_cb"
  /\ LET p == call[t].port IN
       IF call[t].i < Len(call[t].arg)
       THEN /\ pc' = [pc EXCEPT ![t] = "im_upgrade"]
            /\ call' = [call EXCEPT ![t].i = @ + 1, ![t].arc = 0]
            /\ ev' = LinkEv(p, "import", "slot", "-")
       ELSE Done(t, LinkEv(p, "import", "return", "ok"))
  /\ UNCHANGED <<origin, ctxVars, main_pc>>

\* ---------------------------------------------- the user module of the tests
\* ModuleA::import_service (tests): the proxy made from the Link's RPC
\* context and the handle is pushed on the module's list, with the slot name
Entry(p, slot) == [ctx |-> p, handle |-> slot.handle, name |-> slot.name]

\* mutant of ImportReturnModuleA: the loop hands the first slot of the list to
\* every callback
ImportReturnModuleA_firstSlot(t) ==
  /\ pc[t] = "im_cb"
  /\ LET p == call[t].port
         slot == call[t].arg[1] IN
       /\ imported' = [imported EXCEPT ![call[t].arc] = Append(@, Entry(p, slot))]
       /\ IF call[t].i < Len(call[t].arg)
          THEN /\ pc' = [pc EXCEPT ![t] = "im_upgrade"]
               /\ call' = [call EXCEPT ![t].i = @ + 1, ![t].arc = 0]
               /\ ev' = LinkEv(p, "import", "slot", "-")
          ELSE Done(t, LinkEv(p, "import", "return", "ok"))
  /\ UNCHANGED <<origin, user_context, next_inst, pool, exported, user_arg, ports,
                 portObjs, bootstrap_finished, main_pc>>

\* ModulePort::import with ModuleA as the user module: import_service
\* returns, having recorded the proxy; guard and Arc are dropped
ImportReturnModuleA(t) ==
  /\ pc[t] = "im_cb"
  /\ LET p == call[t].port
         slot == call[t].arg[call[t].i] IN
       /\ imported' = [imported EXCEPT ![call[t].arc] = Append(@, Entry(p, slot))]
       /\ IF call[t].i < Len(call[t].arg)
          THEN /\ pc' = [pc EXCEPT ![t] = "im_upgrade"]
               /\ call' = [call EXCEPT ![t].i = @ + 1, ![t].arc = 0]
               /\ ev' = LinkEv(p, "import", "slot", "-")
          ELSE Done(t, LinkEv(p, "import", "return", "ok"))
  /\ UNCHANGED <<origin, user_context, next_inst, pool, exported, user_arg, ports,
                 portObjs, bootstrap_finished, main_pc>>

\* the Link at the other end of the transport of Link q: 0 is a Link of
\* another module, -1 is no Link
PeerOf(q) ==
  LET others == {p \in 1..Len(portObjs) :
                   /\ p # q
                   /\ portObjs[q].ipc \in IntraEnds
                   /\ portObjs[p].ipc \in IntraEnds \ {portObjs[q].ipc}}
  IN IF portObjs[q].ipc = ExtEnd THEN 0
     ELSE IF others # {} THEN CHOOSE p \in others : TRUE
     ELSE -1

Nothing == <<0, -1>>

\* the object a call through an imported proxy reaches: the RPC layer takes
\* the call over the transport of the importing Link to the exporting Link,
\* whose registry resolves the handle
Reach(e) ==
  LET p == e.handle.port IN
    IF /\ portObjs[e.ctx].rto
       /\ PeerOf(e.ctx) = p
       /\ p # 0 => (portObjs[p].rto /\ ~portObjs[p].cleared)
    THEN e.handle.obj
    ELSE Nothing

\* SimpleHello::hello (tests): the value the object was constructed with,
\* which is the number of its descriptor
Value(obj) == obj[2]

\* SimpleHello::hi (tests): the greeting the object was constructed with,
\* which is the own greeting of the module that constructed it; an object of
\* the module at the other end of an ExtEnd has that module's own greeting
Greeting(obj) ==
  IF obj = Nothing THEN 0
  ELSE IF obj[1] = 0 THEN PeerArg[1]
  ELSE user_arg[obj[1]][1]

\* ModuleA::debug, first assertion: hello through the proxy answers the value
\* the slot was named after
HelloOk(e) == Value(Reach(e)) = e.name

\* ModuleA::debug, second assertion: hi through the proxy answers the greeting
\* instance k expects of the others
HiOk(k, e) == Greeting(Reach(e)) = user_arg[k][2]

\* ModuleContext::debug with ModuleA as the user module: for every imported
\* proxy in order, debug calls hello and asserts the value, then calls hi and
\* asserts the greeting; the first assertion that fails ends the call
DebugReturnModuleA(t) ==
  /\ pc[t] = "debug_cb"
  /\ LET k == call[t].arc
         list == imported[k]
         bad == {j \in 1..Len(list) : ~HelloOk(list[j]) \/ ~HiOk(k, list[j])} IN
       IF bad = {}
       THEN Done(t, Ev("debug", "return", "ok"))
       ELSE LET j == CHOOSE m \in bad : \A n \in bad : m <= n IN
              IF ~HelloOk(list[j])
              THEN Done(t, Ev("debug", "assert_eq_hello", "fault"))
              ELSE Done(t, Ev("debug", "assert_eq_hi", "fault"))
  /\ UNCHANGED <<origin, ctxVars, main_pc>>

\* ModuleA::debug makes two calls through every imported proxy, hello and
\* then hi: the c-th call of a debug goes to proxy number ProxyOfCall(c), and
\* is hello when c is odd
ProxyOfCall(c) == (c + 1) \div 2

IsHelloCall(c) == c % 2 = 1

\* ModuleA::debug (tests/integration_test.rs), one outbound call at a time:
\* the next call is made (hello of the next proxy, or hi of the proxy whose
\* hello was answered), and the thread waits for the answer; after the hi of
\* the last proxy debug returns
DebugCallOut(t) ==
  /\ pc[t] = "debug_cb"
  /\ IF call[t].i = 2 * Len(imported[call[t].arc])
     THEN Done(t, Ev("debug", "return", "ok"))
     ELSE /\ pc' = [pc EXCEPT ![t] = "debug_rpc"]
          /\ call' = [call EXCEPT ![t].i = @ + 1]
          /\ ev' = Ev("debug", IF IsHelloCall(call[t].i + 1)
                                THEN "hello_call" ELSE "hi_call", "-")
  /\ UNCHANGED <<origin, ctxVars, main_pc>>

\* ModuleA::debug: the answer of the peer arrives and is compared, that of
\* hello with the value the slot was named after, that of hi with the
\* greeting the module expects of the others
DebugAnswer(t) ==
  /\ pc[t] = "debug_rpc"
  /\ LET k == call[t].arc
         e == imported[k][ProxyOfCall(call[t].i)] IN
       IF IsHelloCall(call[t].i)
       THEN IF HelloOk(e)
            THEN /\ pc' = [pc EXCEPT ![t] = "debug_cb"]
                 /\ ev' = Ev("debug", "hello_answer", "-")
                 /\ UNCHANGED call
            ELSE Done(t, Ev("debug", "assert_eq_hello", "fault"))
       ELSE IF HiOk(k, e)
            THEN /\ pc' = [pc EXCEPT ![t] = "debug_cb"]
                 /\ ev' = Ev("debug", "hi_answer", "-")
                 /\ UNCHANGED call
            ELSE Done(t, Ev("debug", "assert_eq_hi", "fault"))
  /\ UNCHANGED <<origin, ctxVars, main_pc>>

\* ModuleA::debug of tests/multiple.rs: a store is drawn from the imported
\* proxies (unwrap of the draw faults on an empty list) and called
DebugReturnPizza(t) ==
  /\ pc[t] = "debug_cb"
  /\ LET list == imported[call[t].arc] IN
       IF list = <<>>
       THEN Done(t, Ev("debug", "choose", "fault"))
       ELSE \E k \in 1..Len(list) :
              IF Reach(list[k]) # Nothing
              THEN Done(t, Ev("debug", "return", "ok"))
              ELSE Done(t, Ev("debug", "proxy_call", "fault"))
  /\ UNCHANGED <<origin, ctxVars, main_pc>>

\* mutant of PortShutdownCall: the registry is cleared before the disable
PortShutdownCall_clearFirst(t, p) ==
  /\ pc[t] = "idle"
  /\ \A u \in Threads : u < t => pc[u] # "idle"
  /\ p \in 1..Len(portObjs)
  /\ ~PortLocked(p)
  /\ IF ~portObjs[p].rto
     THEN /\ Done(t, LinkEv(p, "port_shutdown", "unwrap", "fault"))
          /\ UNCHANGED portObjs
     ELSE /\ portObjs' = [portObjs EXCEPT ![p].cleared = TRUE]
          /\ pc' = [pc EXCEPT ![t] = "ps_clear"]
          /\ call' = [call EXCEPT ![t] = [NoCall EXCEPT !.op = "port_shutdown", !.port = p]]
          /\ ev' = LinkEv(p, "port_shutdown", "disable", "-")
  /\ UNCHANGED <<origin, user_context, next_inst, pool, exported, imported, user_arg, ports,
                 bootstrap_finished, main_pc>>

\* ModulePort::shutdown: unwrap of rto_context and disable_garbage_collection
PortShutdownCall(t, p) ==
  /\ pc[t] = "idle"
  /\ \A u \in Threads : u < t => pc[u] # "idle"
  /\ p \in 1..Len(portObjs)
  /\ ~PortLocked(p)
  /\ IF ~portObjs[p].rto
     THEN /\ Done(t, LinkEv(p, "port_shutdown", "unwrap", "fault"))
          /\ UNCHANGED portObjs
     ELSE /\ portObjs' = [portObjs EXCEPT ![p].gc = FALSE]
          /\ pc' = [pc EXCEPT ![t] = "ps_clear"]
          /\ call' = [call EXCEPT ![t] = [NoCall EXCEPT !.op = "port_shutdown", !.port = p]]
          /\ ev' = LinkEv(p, "port_shutdown", "disable", "-")
  /\ UNCHANGED <<origin, user_context, next_inst, pool, exported, imported, user_arg, ports,
                 bootstrap_finished, main_pc>>

\* ModulePort::shutdown: clear_service_registry
PortShutdownClear(t) ==
  /\ pc[t] = "ps_clear"
  /\ portObjs' = [portObjs EXCEPT ![call[t].port].cleared = TRUE]
  /\ Done(t, LinkEv(call[t].port, "port_shutdown", "return", "ok"))
  /\ UNCHANGED <<origin, user_context, next_inst, pool, exported, imported, user_arg, ports,
                 bootstrap_finished, main_pc>>

\* ----------------------------------------------------------- specification
PortIds == 1..MaxPortObjs
IdLists == SeqsUpTo(0..MaxPool, MaxIds)

\* the slot lists of import: handles of a peer module, up to MaxSlots
SlotLists == SeqsUpTo({ExtSlot}, MaxSlots)

Next ==
  \/ \E t \in Threads, n \in 0..MaxPool : Initialize(t, ModuleArg, n)
  \/ \E t \in Threads, name \in Names : CreatePort(t, name)
  \/ \E t \in Threads : FinishBootstrap(t)
  \/ \E t \in Threads : DebugCall(t)
  \/ \E t \in Threads : DebugLock(t)
  \/ \E t \in Threads : DebugReturn(t)
  \/ \E t \in Threads : ShutdownCall(t)
  \/ \E t \in Threads : ShutdownDisable(t)
  \/ \E t \in Threads : ShutdownClear(t)
  \/ \E t \in Threads : ShutdownDrop(t)
  \/ \E t \in Threads : ShutdownSendFail(t)
  \/ StartRecv
  \/ StartExit
  \/ \E t \in Threads, p \in PortIds : PortInitialize(t, p, ExtEnd)
  \/ \E t \in Threads, p \in PortIds, ids \in IdLists : ExportCall(t, p, ids)
  \/ \E t \in Threads : ExportStep(t)
  \/ \E t \in Threads, p \in PortIds, slots \in SlotLists : ImportCall(t, p, slots)
  \/ \E t \in Threads : ImportUpgrade(t)
  \/ \E t \in Threads : ImportLock(t)
  \/ \E t \in Threads : ImportReturn(t)

Spec == Init /\ [][Next]_vars

\* the Link's own shutdown primitive invoked directly, besides the above
NextWithPortShutdown ==
  \/ Next
  \/ \E t \in Threads, p \in PortIds : PortShutdownCall(t, p)
  \/ \E t \in Threads : PortShutdownClear(t)

SpecPortShutdown == Init /\ [][NextWithPortShutdown]_vars

\* Module-as-a-process: the process lives until start returns.  The calls
\* that compete with shutdown for a lock (the Link methods that take the
\* lock of the user module, and debug) and the calls that build the module
\* are served until then.
Running == origin = "start" /\ main_pc = "waiting"

LiveNext ==
  \/ Running /\ \E t \in Threads, n \in 0..MaxPool : Initialize(t, ModuleArg, n)
  \/ Running /\ \E t \in Threads : FinishBootstrap(t)
  \/ Running /\ \E t \in Threads, p \in PortIds, ids \in IdLists : ExportCall(t, p, ids)
  \/ Running /\ \E t \in Threads : ExportStep(t)
  \/ Running /\ \E t \in Threads, name \in Names : CreatePort(t, name)
  \/ Running /\ \E t \in Threads : DebugCall(t)
  \/ Running /\ \E t \in Threads : DebugLock(t)
  \/ Running /\ \E t \in Threads : DebugReturn(t)
  \/ Running /\ \E t \in Threads : ShutdownCall(t)
  \/ Running /\ \E t \in Threads : ShutdownDisable(t)
  \/ Running /\ \E t \in Threads : ShutdownClear(t)
  \/ Running /\ \E t \in Threads : ShutdownDrop(t)
  \/ Running /\ StartRecv
  \/ Running /\ \E t \in Threads, p \in PortIds : PortInitialize(t, p, ExtEnd)
  \/ Running /\ \E t \in Threads, p \in PortIds, slots \in SlotLists : ImportCall(t, p, slots)
  \/ Running /\ \E t \in Threads : ImportUpgrade(t)
  \/ Running /\ \E t \in Threads : ImportLock(t)
  \/ Running /\ \E t \in Threads : ImportReturn(t)

\* Scheduling: the thread in shutdown and a thread in import take their next
\* step when they can; an import callback of the user module returns; a
\* thread waiting for a lock gets it if the lock is free again and again
\* (parking_lot hands locks over fairly).  At most one thread is in shutdown.
LiveFairness ==
  /\ WF_vars(Running /\ StartRecv)
  /\ WF_vars(Running /\ \E t \in Threads : ShutdownDrop(t))
  /\ SF_vars(Running /\ \E t \in Threads : ShutdownDisable(t))
  /\ SF_vars(Running /\ \E t \in Threads : ShutdownClear(t))
  /\ \A t \in Threads :
       /\ WF_vars(Running /\ ImportUpgrade(t))
       /\ WF_vars(Running /\ ExportStep(t))
       /\ WF_vars(Running /\ ImportReturn(t))
       /\ SF_vars(Running /\ ImportLock(t))

\* the Module Context as start builds it
LiveInit == Init /\ origin = "start"

LiveSpec == LiveInit /\ [][LiveNext]_vars /\ LiveFairness

\* The exchange of handles during bootstrap, with Staging Pools of up to
\* MaxStaged objects and export lists of up to MaxWanted indices: the calls
\* that load, serve and clear the pool, and those that create and bind Links.
WantedLists == SeqsUpTo(0..MaxStaged, MaxWanted)

\* The user module is the tests' ModuleA; the two Links of the module are
\* given the two ends of one transport, and the coordinator passes the
\* handles an export returned, each named after the index requested, to
\* import on the Link at the other end.
EndFree(end) == \A p \in 1..Len(portObjs) : portObjs[p].ipc # end

Forwarded == [k \in 1..Len(ev.val) |-> Slot(ev.arg[k], ev.val[k])]

Forward(t, q) ==
  /\ ev.op = "export" /\ ev.res = "ok" /\ ev.val # <<>>
  /\ q \in 1..Len(portObjs)
  /\ PeerOf(q) = ev.port
  /\ \A k \in 1..MaxInstances : Len(imported[k]) + Len(ev.val) <= MaxImported
  /\ ImportCall(t, q, Forwarded)

ExchangeNext ==
  \/ \E t \in Threads, arg \in ModuleArgs, n \in 0..MaxStaged : Initialize(t, arg, n)
  \/ \E t \in Threads, name \in Names : CreatePort(t, name)
  \/ \E t \in Threads : FinishBootstrap(t)
  \/ \E t \in Threads, p \in PortIds, end \in IntraEnds :
       EndFree(end) /\ PortInitialize(t, p, end)
  \/ \E t \in Threads, p \in PortIds, ids \in WantedLists : ExportCall(t, p, ids)
  \/ \E t \in Threads : ExportStep(t)
  \/ \E t \in Threads, q \in PortIds : Forward(t, q)
  \/ \E t \in Threads : ImportUpgrade(t)
  \/ \E t \in Threads : ImportLock(t)
  \/ \E t \in Threads : ImportReturnModuleA(t)
  \/ \E t \in Threads : DebugCall(t)
  \/ \E t \in Threads : DebugLock(t)
  \/ \E t \in Threads : DebugReturnModuleA(t)

ExchangeSpec == LiveInit /\ [][ExchangeNext]_vars

\* The multi-module scenario of tests/multiple.rs, seen from one of its
\* modules, which has one peer per name.  The coordinator stages one service
\* per peer, and per peer creates the Link, initializes it, exports the index
\* reserved for that peer and imports the peer's handle, the Links in any
\* order and concurrently; then it finishes bootstrap, calls debug and shuts
\* the module down.
PeerIndex(name) == name - 1

PeerHandle(name) == [port |-> 0, obj |-> <<0, name>>]

ImportedVia(p) ==
  \E k \in 1..MaxInstances : \E j \in 1..Len(imported[k]) : imported[k][j].ctx = p

\* the handshake over the Link of this name is complete
Linked(name) == ports[name] # 0 /\ ImportedVia(ports[name])

MultipleNext ==
  \/ \E t \in Threads : next_inst = 0 /\ Initialize(t, ModuleArg, NumNames)
  \/ \E t \in Threads, name \in Names :
       user_context # 0 /\ ports[name] = 0 /\ CreatePort(t, name)
  \/ \E t \in Threads, name \in Names :
       /\ ports[name] # 0 /\ ~portObjs[ports[name]].rto
       /\ PortInitialize(t, ports[name], ExtEnd)
  \/ \E t \in Threads, name \in Names :
       /\ ports[name] # 0 /\ portObjs[ports[name]].rto
       /\ PeerIndex(name) \notin exported /\ ~bootstrap_finished
       /\ ExportCall(t, ports[name], <<PeerIndex(name)>>)
  \/ \E t \in Threads : ExportStep(t)
  \/ \E t \in Threads, name \in Names :
       /\ ports[name] # 0 /\ PeerIndex(name) \in exported
       /\ ~ImportedVia(ports[name])
       /\ ImportCall(t, ports[name], <<Slot(0, PeerHandle(name))>>)
  \/ \E t \in Threads : ImportUpgrade(t)
  \/ \E t \in Threads : ImportLock(t)
  \/ \E t \in Threads : ImportReturnModuleA(t)
  \/ \E t \in Threads :
       (\A name \in Names : Linked(name)) /\ ~bootstrap_finished /\ FinishBootstrap(t)
  \/ \E t \in Threads : bootstrap_finished /\ user_context # 0 /\ DebugCall(t)
  \/ \E t \in Threads : DebugLock(t)
  \/ \E t \in Threads : DebugReturnPizza(t)
  \/ \E t \in Threads : ev = Ev("debug", "return", "ok") /\ ShutdownCall(t)
  \/ \E t \in Threads : ShutdownDisable(t)
  \/ \E t \in Threads : ShutdownClear(t)
  \/ \E t \in Threads : ShutdownDrop(t)
  \/ StartRecv
  \/ StartExit

MultipleSpec == LiveInit /\ [][MultipleNext]_vars

TypeOK ==
  /\ user_context \in 0..MaxInstances
  /\ next_inst \in 0..MaxInstances
  /\ Len(pool) <= MaxPool \/ Len(pool) <= MaxStaged \/ Len(pool) <= NumNames
     \/ Len(pool) <= Test1N
  /\ Len(portObjs) <= MaxPortObjs

\* ------------------------------------------------------------------ claims
Links == 1..Len(portObjs)

\* some Link's registry is cleared by this step
ClearsSome == \E p \in Links : portObjs'[p].cleared /\ ~portObjs[p].cleared

\* C1: within one shutdown of the Module Context, a registry is cleared only
\* when the tracking of every Link registered in the module, the cleared Link
\* included, has already been disabled.
C1_DisableAllBeforeClear ==
  [][(ev'.op = "shutdown" /\ (ev'.step = "clear" \/ ClearsSome))
       => \A p \in Registered : ~portObjs[p].gc]_vars

\* shutdown has cleared a registry of a module that holds two Links
C1_Witness ==
  /\ ev = Ev("shutdown", "clear", "-")
  /\ Cardinality(Registered) = 2
  /\ \E p \in Registered : portObjs[p].cleared

\* C2: in every reachable state a Link whose registry has been cleared has
\* its tracking disabled, whether the clear came from the Module Context's
\* shutdown or from the Link's own shutdown.
C2_ClearedImpliesDisabled ==
  \A p \in Links : portObjs[p].cleared => ~portObjs[p].gc

\* a Link's own shutdown has disabled its tracking and cleared its registry
C2_Witness ==
  /\ \E p \in Links : /\ ev = LinkEv(p, "port_shutdown", "return", "ok")
                       /\ portObjs[p].cleared

\* C3: the shutdown signal is delivered only when every Link that was
\* registered has had its registry cleared, the module holds no user instance
\* and the Link map is empty.
C3_SignalAfterTeardown ==
  [][ev' = Ev("shutdown", "send", "ok")
       => \A t \in Senders :
            /\ \A i \in 1..Len(call[t].arg) : portObjs[call[t].arg[i]].cleared
            /\ user_context = 0 /\ user_context' = 0
            /\ Registered = {} /\ Registered' = {}]_vars

\* the signal has been delivered by a shutdown that cleared a Link
C3_Witness ==
  /\ ev = Ev("shutdown", "send", "ok")
  /\ \E p \in Links : portObjs[p].cleared

\* C4: start leaves its wait only in a step in which a shutdown call that
\* has reached its send hands over the signal.
C4_StartReturnsAfterShutdown ==
  [][(main_pc = "waiting" /\ main_pc' # "waiting")
       => (Senders # {} /\ ev' = Ev("shutdown", "send", "ok"))]_vars

\* start has returned
C4_Witness == main_pc = "returned" /\ ev = Ev("shutdown", "send", "ok")

\* shutdown has just been entered on a module driven by start that holds a
\* user instance and whose registered Links are all bound
C5_ShutdownEntered ==
  /\ ev = Ev("shutdown", "call", "-")
  /\ origin = "start" /\ main_pc = "waiting"
  /\ user_context # 0
  /\ \A p \in Registered : portObjs[p].rto

\* the signal has been handed over: shutdown and start have both returned
C5_ShutdownCompleted ==
  /\ ev = Ev("shutdown", "send", "ok")
  /\ main_pc = "returned"
  /\ \A t \in Threads : call[t].op # "shutdown"

\* C5: under fair scheduling, a shutdown entered on an initialized module
\* started by start, all of whose Links are initialized, eventually hands
\* its signal to start: shutdown completes and start returns.
C5_ShutdownTerminates == C5_ShutdownEntered ~> C5_ShutdownCompleted

\* such a shutdown has completed over two bound Links
C5_Witness ==
  /\ C5_ShutdownCompleted
  /\ Cardinality({p \in Links : portObjs[p].cleared}) = 2

\* C6: initialize on a Module Context that holds a user instance faults and
\* leaves the instance and the Staging Pool as they were; no new instance is
\* constructed.
C6_SecondInitializeFaults ==
  [][(ev'.op = "initialize" /\ user_context # 0)
       => (ev'.res = "fault" /\ UNCHANGED <<user_context, next_inst, pool, exported>>)]_vars

\* initialize has faulted on a module with a loaded Staging Pool
C6_Witness ==
  /\ ev = Ev("initialize", "assert", "fault")
  /\ user_context # 0 /\ pool # <<>>

\* C7: distinct names map to distinct Links, and create_port returns
\* normally exactly when it registers a Link under a name that was free;
\* on a name already registered it faults.
C7_DistinctLinks ==
  [][ev'.op = "create_port" =>
       /\ \A n, m \in Names : (n # m /\ ports'[n] # 0) => ports'[n] # ports'[m]
       /\ (ev'.res = "ok") <=>
            \E n \in Names : /\ ports[n] = 0 /\ ports'[n] # 0
                             /\ \A m \in Names \ {n} : ports'[m] = ports[m]
       /\ \A n \in Names : (ports[n] # 0 /\ ports'[n] # ports[n]) => ev'.res = "fault"]_vars

\* create_port has faulted on a registered name; the map holds the new Link
C7_Witness ==
  /\ ev = Ev("create_port", "assert_insert", "fault")
  /\ \E n \in Names : ports[n] = Len(portObjs) /\ ~portObjs[ports[n]].exposed

\* C8: once bootstrap is finished every create_port faults and registers no
\* Link, and no step adds a Link to the map.
C8_NoPortAfterBootstrap ==
  [][bootstrap_finished =>
       /\ Registered' \subseteq Registered
       /\ ev'.op = "create_port" =>
            (ev'.res = "fault" /\ ports' = ports /\ portObjs' = portObjs)]_vars

\* create_port has faulted on a live module whose bootstrap is finished
C8_Witness ==
  /\ ev = Ev("create_port", "assert_bootstrap", "fault")
  /\ bootstrap_finished /\ user_context # 0

\* C9: finish_bootstrap returns normally only while bootstrap is not yet
\* finished, its success finishes bootstrap, and bootstrap stays finished:
\* every call after the first successful one faults.
C9_FinishOnce ==
  [][/\ bootstrap_finished => bootstrap_finished'
     /\ ev'.op = "finish_bootstrap" =>
          /\ bootstrap_finished'
          /\ (ev'.res = "ok") <=> ~bootstrap_finished]_vars

\* a second finish_bootstrap has faulted
C9_Witness == ev = Ev("finish_bootstrap", "assert", "fault") /\ bootstrap_finished

\* the staged indices of the current pool
Staged == 0..(Len(pool) - 1)

\* C10: finish_bootstrap returns normally only when every staged index of
\* the Staging Pool has been exported by some Link.
C10_FinishRequiresAllExported ==
  [][(ev'.op = "finish_bootstrap" /\ ev'.res = "ok") => Staged \subseteq exported]_vars

\* thread t serves one id of its export from the Staging Pool in this step
ExportServes(t) ==
  /\ pc[t] = "ex_loop"
  /\ (pc'[t] # "ex_loop" \/ call'[t] # call[t])

\* the id an export in progress is about to serve
ExportId(t) == call[t].arg[call[t].i]

\* C11: a staged index is exported at most once: the export of an index that
\* some Link has already exported since the pool was loaded faults.
C11_ExportAtMostOnce ==
  [][\A t \in Threads :
       (ExportServes(t) /\ ExportId(t) \in exported)
         => ev' = LinkEv(call[t].port, "export", "index", "fault")]_vars

\* C12: the export of an index the current Staging Pool does not hold
\* faults and marks nothing exported; finish_bootstrap leaves the pool
\* empty, and while the pool is empty no export of a non-empty ids list
\* returns normally.
C12_BadIndexFaults ==
  [][/\ \A t \in Threads :
          (ExportServes(t) /\ ExportId(t) \notin Staged)
            => /\ ev' = LinkEv(call[t].port, "export", "index", "fault")
               /\ exported' = exported
     /\ ev'.op = "finish_bootstrap" => pool' = <<>>
     /\ (ev'.op = "export" /\ ev'.res = "ok" /\ pool = <<>>) => ev'.val = <<>>]_vars

\* an export on a bound Link has faulted on the pool that finish_bootstrap
\* cleared
C12_Witness ==
  /\ ev.op = "export" /\ ev.step = "index" /\ ev.res = "fault"
  /\ portObjs[ev.port].rto
  /\ bootstrap_finished /\ user_context # 0 /\ pool = <<>>

\* C13: an export that returns normally returns one handle per element of
\* ids, in the order of ids: the k-th handle is registered in the exporting
\* Link and designates the object staged at index ids[k] (the object at that
\* index of the pool the export served it from).
C13_ExportInOrder ==
  [][(ev'.op = "export" /\ ev'.res = "ok") =>
       \/ /\ \A t \in Threads : ~ExportServes(t)
          /\ ev'.val = <<>>
       \/ \E t \in Threads :
            /\ ExportServes(t)
            /\ Len(ev'.val) = Len(call[t].arg)
            /\ \A k \in 1..Len(call[t].arg) :
                 /\ ev'.val[k].port = call[t].port
                 /\ ev'.val[k].obj[2] = call[t].arg[k]
                 /\ ev'.val[k].obj[1] \in 1..next_inst
            /\ ev'.val[Len(call[t].arg)].obj = pool[ExportId(t) + 1]]_vars

\* an export of two different indices, the higher first, has returned
C13_Witness ==
  /\ ev.op = "export" /\ ev.res = "ok"
  /\ Len(ev.val) = 2
  /\ ev.val[1].obj[2] = 1 /\ ev.val[2].obj[2] = 0

\* C14: initialize of a Link returns normally exactly when the Link was
\* unbound, and binds it; a Link once bound stays bound; an initialize on a
\* bound Link faults and leaves every Link as it was.
C14_LinkInitializeOnce ==
  [][/\ \A p \in Links : portObjs[p].rto => portObjs'[p].rto
     /\ ev'.op = "port_initialize" =>
          /\ ev'.res = "ok" <=> ~portObjs[ev'.port].rto
          /\ portObjs'[ev'.port].rto
          /\ \A q \in Links \ {ev'.port} : portObjs'[q] = portObjs[q]
          /\ ev'.res = "fault" => portObjs' = portObjs]_vars

\* a second initialize has faulted on a Link whose tracking shutdown had
\* disabled; the Link is as shutdown left it
C14_Witness ==
  /\ ev.op = "port_initialize" /\ ev.step = "assert" /\ ev.res = "fault"
  /\ portObjs[ev.port].rto /\ ~portObjs[ev.port].gc

\* C15: no export or import call returns normally on a Link that is not
\* bound (initialize has not completed on it), whatever its argument list;
\* no staged object is served and no import callback is entered through an
\* unbound Link.
C15_UnboundLinkCallsFault ==
  [][/\ (ev'.op \in {"export", "import"} /\ ev'.res = "ok") => portObjs[ev'.port].rto
     /\ \A t \in Threads :
          /\ ExportServes(t) => portObjs[call[t].port].rto
          /\ (pc[t] # "im_cb" /\ pc'[t] = "im_cb") => portObjs[call[t].port].rto]_vars

\* instance k was constructed and the Module Context no longer owns it:
\* shutdown has dropped it
Dropped(k) == k \in 1..next_inst /\ user_context # k

\* no Link keeps a dropped instance alive and no import callback is executing
\* on one
NoUseOfDropped ==
  /\ \A k \in 1..next_inst : Dropped(k) => ~Alive(k)
  /\ \A t \in Threads : pc[t] = "im_cb" => ~Dropped(call[t].arc)

\* C16: once shutdown has dropped the user module instance, no Link keeps
\* the instance alive, no import callback is executing on it, and an import
\* that reaches its upgrade for a slot afterwards faults.
C16_NoImportAfterDrop ==
  [][/\ NoUseOfDropped'
     /\ \A t \in Threads :
          (pc[t] = "im_upgrade" /\ pc'[t] # "im_upgrade"
             /\ Dropped(portObjs[call[t].port].user))
            => ev'.res = "fault"]_vars

\* the lifecycle state of the Module Context, read off its fields: shut down
\* once an instance was dropped and none is held, bootstrap finished by the
\* flag, initialized by the presence of the instance
Lifecycle ==
  IF user_context = 0 /\ next_inst > 0 THEN "ShutDown"
  ELSE IF bootstrap_finished THEN "BootstrapFinished"
  ELSE IF user_context # 0 THEN "Initialized"
  ELSE "Uninitialized"

\* C17: in every reachable state the user module instance exists exactly
\* when the lifecycle state is Initialized or BootstrapFinished; bootstrap is
\* never marked finished on a module that holds no instance and never held
\* one.
C17_InstanceIffLifecycle ==
  /\ (user_context # 0) <=> (Lifecycle \in {"Initialized", "BootstrapFinished"})
  /\ (bootstrap_finished /\ user_context = 0) => Lifecycle = "ShutDown"

\* a shutdown has succeeded: its signal was delivered to start
ShutdownSucceeded == origin = "start" /\ main_pc \in {"returned", "exited"}

CtxOps == {"initialize", "create_port", "finish_bootstrap", "debug", "shutdown"}

\* C18: after a successful shutdown no Module Context operation returns
\* normally (a second shutdown delivers no second signal), and the module
\* stays in the ShutDown state, without a user instance.
C18_ShutdownTerminal ==
  [][ShutdownSucceeded =>
       /\ ev'.op \in CtxOps => ev'.res # "ok"
       /\ user_context' = 0
       /\ Lifecycle' = "ShutDown"]_vars

\* C19: every proxy the user module holds for a handle that the Link at the
\* other end exported for index i reaches the object constructed from
\* descriptor i of the exporting module, and no other: a call through it
\* answers with the value of descriptor i (the name of its slot), so the
\* assertion debug makes on the value never fails; the assertion debug makes
\* on the greeting fails only in a module that greets itself with another
\* greeting than the one it expects.
C19_RoundTrip ==
  /\ \A k \in 1..MaxInstances : \A j \in 1..Len(imported[k]) :
       LET e == imported[k][j] IN
         /\ Reach(e) = <<portObjs[e.handle.port].user, e.name>>
         /\ Reach(e) \in {pool[i] : i \in 1..Len(pool)} \/ bootstrap_finished
  /\ (ev.op = "debug" /\ ev.res = "fault") => ev.step \in {"unwrap", "assert_eq_hi"}
  /\ ev = Ev("debug", "assert_eq_hi", "fault") =>
       \E k \in 1..next_inst : user_arg[k][1] # user_arg[k][2]

\* debug has checked two proxies, for the objects of descriptors 1 and 0,
\* with two calls through each
C19_Witness ==
  /\ ev = Ev("debug", "return", "ok")
  /\ \E k \in 1..MaxInstances :
       /\ Len(imported[k]) = 2
       /\ imported[k][1].name = 1 /\ imported[k][2].name = 0

\* the module holds one Link per peer and one imported proxy per Link, made
\* from the handle of that Link's peer
Wired ==
  /\ user_context # 0
  /\ \A name \in Names : ports[name] # 0
  /\ Cardinality(Registered) = NumNames
  /\ Len(imported[user_context]) = NumNames
  /\ \A name \in Names :
       Cardinality({j \in 1..NumNames :
                      imported[user_context][j]
                        = Entry(ports[name], Slot(0, PeerHandle(name)))}) = 1

\* C20: in the multi-module scenario no call faults; every export serves an
\* index not exported before; when bootstrap is finished every staged index
\* has been exported, and from then until shutdown the module holds one Link
\* per peer and one imported proxy from each peer.
C20_MultipleScenario ==
  [][/\ ev'.res # "fault"
     /\ \A t \in Threads : ExportServes(t) => ExportId(t) \notin exported
     /\ ev'.op = "finish_bootstrap" =>
          (Len(pool) = NumNames /\ exported = Staged /\ Wired)
     /\ (bootstrap_finished' /\ user_context' # 0) => Wired']_vars

\* debug has run on the wired module, shutdown has cleared every Link and
\* delivered its signal, and start has returned
C20_Witness ==
  /\ main_pc = "exited"
  /\ Len(imported[1]) = NumNames
  /\ Len(portObjs) = NumNames
  /\ \A p \in Links : portObjs[p].cleared
  /\ user_context = 0 /\ bootstrap_finished

\* The scenario of tests/integration_test.rs (test1), seen from one of its
\* two modules and with n scaled down: the coordinator initializes the module
\* with n descriptors, creates the module's one Link and initializes it, in
\* one call exports all n indices over it, in one call imports the n handles
\* of the peer, each named after the index the peer exported it for, calls
\* debug, and shuts the module down.  finish_bootstrap is never called.
\* Every call of the coordinator is made after the one before has returned.
Test1Slot(name) == Slot(name, PeerHandle(name))

\* zero_to_n: the export list of the test
ZeroToN(n) == [i \in 1..n |-> i - 1]

\* handles_2_to_1: the slots the test imports, the peer's handles zipped with
\* the indices as names
Test1Handles(n) == [i \in 1..n |-> Test1Slot(i - 1)]

\* no call of the coordinator is being served
Test1Quiet == \A u \in Threads : pc[u] = "idle"

\* the coordinator has completed the exchange over the Link of the module:
\* the Link is bound, every index is exported and every slot imported
Test1Linked ==
  /\ user_context # 0
  /\ Cardinality(Registered) = 1
  /\ exported = Staged
  /\ \E p \in Registered :
       /\ portObjs[p].rto
       /\ imported[user_context]
            = [i \in 1..Len(pool) |-> Entry(p, Test1Slot(i - 1))]

Test1Next ==
  \/ \E t \in Threads, n \in 1..Test1N :
       next_inst = 0 /\ Initialize(t, ModuleArg, n)
  \/ \E t \in Threads, name \in Names :
       user_context # 0 /\ portObjs = <<>> /\ CreatePort(t, name)
  \/ \E t \in Threads, p \in Registered :
       ~portObjs[p].rto /\ PortInitialize(t, p, ExtEnd)
  \/ \E t \in Threads, p \in Registered :
       /\ Test1Quiet /\ portObjs[p].rto /\ exported = {}
       /\ ExportCall(t, p, ZeroToN(Len(pool)))
  \/ \E t \in Threads : ExportStep(t)
  \/ \E t \in Threads, p \in Registered :
       /\ Test1Quiet /\ exported = Staged /\ ~ImportedVia(p)
       /\ ImportCall(t, p, Test1Handles(Len(pool)))
  \/ \E t \in Threads : ImportUpgrade(t)
  \/ \E t \in Threads : ImportLock(t)
  \/ \E t \in Threads : ImportReturnModuleA(t)
  \/ \E t \in Threads : Test1Linked /\ Test1Quiet /\ DebugCall(t)
  \/ \E t \in Threads : DebugLock(t)
  \/ \E t \in Threads : DebugCallOut(t)
  \/ \E t \in Threads : DebugAnswer(t)
  \/ \E t \in Threads : Test1Linked /\ Test1Quiet /\ ShutdownCall(t)
  \/ \E t \in Threads : ShutdownDisable(t)
  \/ \E t \in Threads : ShutdownClear(t)
  \/ \E t \in Threads : ShutdownDrop(t)
  \/ StartRecv
  \/ StartExit

\* Scheduling: the thread in shutdown takes its next step when it can, and
\* start's recv() returns when a sender is there.
Test1Fairness ==
  /\ WF_vars(StartRecv)
  /\ \A t \in Threads :
       /\ WF_vars(ShutdownDisable(t))
       /\ WF_vars(ShutdownClear(t))
       /\ WF_vars(ShutdownDrop(t))

Test1Spec == LiveInit /\ [][Test1Next]_vars /\ Test1Fairness

\* shutdown has just been entered on an Initialized module whose bootstrap
\* was never finished and whose Link is bound and has exported and imported
C21_ShutdownEntered ==
  /\ ev = Ev("shutdown", "call", "-")
  /\ ~bootstrap_finished
  /\ Test1Linked

\* the signal has been handed over and nothing of the module is left
C21_ShutdownCompleted ==
  /\ ev = Ev("shutdown", "send", "ok")
  /\ main_pc = "returned"
  /\ user_context = 0 /\ Registered = {}
  /\ \A p \in Links : portObjs[p].cleared
  /\ \A t \in Threads : call[t].op # "shutdown"

\* C21: a shutdown called on an Initialized module on which finish_bootstrap
\* was never called, whose Link is initialized and has exported and imported
\* handles, takes no faulting step and eventually delivers the shutdown
\* signal.
C21_ShutdownWithoutFinish ==
  /\ [](ev.op = "shutdown" => ev.res # "fault")
  /\ C21_ShutdownEntered ~> C21_ShutdownCompleted

\* start has returned after such a shutdown; the Staging Pool was never
\* cleared
C21_Witness ==
  /\ main_pc = "exited"
  /\ ~bootstrap_finished /\ user_context = 0
  /\ Len(pool) = Test1N /\ exported = Staged
  /\ Len(imported[1]) = Test1N
  /\ Len(portObjs) = 1 /\ \A p \in Links : portObjs[p].cleared

\* thread t is executing a callback of the user module (import_service or
\* debug) on instance k
InCallback(t, k) == pc[t] \in CallbackPcs /\ call[t].arc = k

\* C22: at most one callback of the user module is executing on a user
\* instance at any time, whatever the calls on the Module Context and on the
\* Links and however they interleave; on a module that has had one instance
\* no two callbacks execute at the same time at all.
C22_OneCallbackAtATime ==
  /\ \A k \in 1..MaxInstances :
       Cardinality({t \in Threads : InCallback(t, k)}) <= 1
  /\ next_inst <= 1 =>
       Cardinality({t \in Threads : pc[t] \in CallbackPcs}) <= 1

\* an import callback is executing while the import of another Link of the
\* module waits for the lock of the same instance
C22_Witness ==
  \E t, u \in Threads :
    /\ pc[t] = "im_cb" /\ pc[u] = "im_lock"
    /\ call[t].arc = call[u].arc
    /\ call[t].port # call[u].port

\* The callbacks of the user module (the tests' ModuleA) under concurrent
\* calls: a module with one Link per peer name, over each of which the
\* coordinator imports once a list of up to MaxBatch handles of the peer,
\* while debug is called at any time.  The module is constructed with its
\* own greeting and either greeting to expect of the peer.
PeerSlots == {Test1Slot(name) : name \in Names}

BatchLists == SeqsUpTo(PeerSlots, MaxBatch)

CallbackNext ==
  \/ \E t \in Threads, arg \in ModuleArgs : next_inst = 0 /\ Initialize(t, arg, 0)
  \/ \E t \in Threads, name \in Names : ports[name] = 0 /\ CreatePort(t, name)
  \/ \E t \in Threads, name \in Names :
       /\ ports[name] # 0 /\ ~portObjs[ports[name]].rto
       /\ PortInitialize(t, ports[name], ExtEnd)
  \/ \E t \in Threads, name \in Names, slots \in BatchLists :
       /\ ports[name] # 0 /\ ~ImportedVia(ports[name])
       /\ ImportCall(t, ports[name], slots)
  \/ \E t \in Threads : ImportUpgrade(t)
  \/ \E t \in Threads : ImportLock(t)
  \/ \E t \in Threads : ImportReturnModuleA(t)
  \/ \E t \in Threads : DebugCall(t)
  \/ \E t \in Threads : DebugLock(t)
  \/ \E t \in Threads : DebugCallOut(t)
  \/ \E t \in Threads : DebugAnswer(t)

CallbackSpec == Init /\ [][CallbackNext]_vars

\* the import call thread u serves has delivered some of its callbacks and
\* not yet all of them
MidImport(u) == call[u].op = "import" /\ call[u].i > 1

\* C23: the callbacks of two import calls on Links of one module are never
\* interleaved: no import callback begins while another import call on a
\* Link of the same instance is between two of its own callbacks.
C23_ImportsNotInterleaved ==
  [][\A t \in Threads :
       (pc[t] = "im_lock" /\ pc'[t] = "im_cb")
         => \A u \in Threads \ {t} :
              MidImport(u) => portObjs[call[u].port].user # call[t].arc]_vars

\* ModulePort.connected_module_name: the peer name create_port gave the Link
ConnectedModuleName(p) == portObjs[p].name

\* the arguments ModulePort::import passes to import_service for the slot
\* thread t is at
ImportArgs(t) ==
  LET p == call[t].port
      slot == call[t].arg[call[t].i]
  IN [ctx |-> p, peer |-> ConnectedModuleName(p), name |-> slot.name, handle |-> slot.handle]

\* what instance k has recorded of the callbacks made through Link p
ViaLink(k, p) == SelectSeq(imported[k], LAMBDA e : e.ctx = p)

\* the records of the callbacks the import of thread t has completed
Delivered(t) == [j \in 1..(call[t].i - 1) |-> Entry(call[t].port, call[t].arg[j])]

\* an import in progress at slot i has made the callbacks of slots 1..i-1,
\* in this order, as the last callbacks made through its Link
ImportProgress ==
  \A t \in Threads :
    call[t].op = "import" =>
      LET p == call[t].port
          via == ViaLink(portObjs[p].user, p)
          d == Delivered(t)
      IN /\ call[t].i \in 1..Len(call[t].arg)
         /\ Len(via) >= Len(d)
         /\ SubSeq(via, Len(via) - Len(d) + 1, Len(via)) = d

\* C24: an import on a bound Link makes one callback per entry of slots, in
\* list order: each callback gets the Link's RPC context, the peer name the
\* Link was created under, and the name and handle of the entry the loop is
\* at; the user module records exactly these; no other step makes or records
\* a callback; and the import returns normally only after the callback of
\* the last entry.
C24_ImportCallbacks ==
  [][/\ \A t \in Threads :
          /\ (pc[t] = "im_lock" /\ pc'[t] = "im_cb") =>
               /\ portObjs[call[t].port].rto
               /\ ImportArgs(t).ctx = call[t].port
               /\ \A n \in Names : ports[n] = call[t].port => ImportArgs(t).peer = n
               /\ Slot(ImportArgs(t).name, ImportArgs(t).handle) = call[t].arg[call[t].i]
               /\ call[t].arc = portObjs[call[t].port].user
          /\ (pc[t] = "im_cb" /\ pc'[t] # "im_cb") =>
               /\ imported' = [imported EXCEPT ![call[t].arc] =
                                 Append(@, [ctx |-> ImportArgs(t).ctx,
                                            handle |-> ImportArgs(t).handle,
                                            name |-> ImportArgs(t).name])]
               /\ (ev'.op = "import" /\ ev'.res = "ok") <=> call[t].i = Len(call[t].arg)
     /\ imported' # imported => \E t \in Threads : pc[t] = "im_cb" /\ pc'[t] # "im_cb"
     /\ ImportProgress']_vars

\* an import of two different slots has returned on one Link, its callbacks
\* interleaved with those of the import on another Link
C24_Witness ==
  \E p \in Links :
    /\ ev = LinkEv(p, "import", "return", "ok")
    /\ LET list == imported[portObjs[p].user]
           via == ViaLink(portObjs[p].user, p) IN
         /\ Len(via) = 2 /\ via[1].name # via[2].name
         /\ Len(list) = 3 /\ list[2].ctx # p /\ list[3].ctx = p

\* thread t is blocked in a call it made through a proxy to a peer
InOutboundCall(t) == pc[t] = "debug_rpc"

\* C25: while a thread is blocked in an outbound RPC call the lock of the
\* user module is free: the thread does not hold it, and no import or debug
\* has to wait for the call to be answered.
C25_NoLockAcrossRpc ==
  \A t \in Threads : InOutboundCall(t) => ~UserLocked(call[t].arc)

\* The locks of the runtime, in the order in which a thread takes them: the
\* Module Context (1), a Link (2), the user module (3).  The Staging Pool
\* lock is taken and released within one step of initialize,
\* finish_bootstrap or export, and no other lock is requested under it.
Held(t) ==
  {r \in 1..3 : \/ r = 1 /\ pc[t] \in CtxPcs
                \/ r = 2 /\ pc[t] # "idle" /\ call[t].port # 0
                \/ r = 3 /\ pc[t] \in CallbackPcs}

\* the lock thread t is about to take (0: none)
Wanted(t) ==
  IF pc[t] \in {"debug_lock", "im_lock"} THEN 3
  ELSE IF pc[t] \in {"sd_disable", "sd_clear"} THEN 2
  ELSE 0

\* the threads that hold the lock thread t is about to take
WaitsFor(t) ==
  IF Wanted(t) = 3 THEN {u \in Threads : InCallback(u, call[t].arc)}
  ELSE IF Wanted(t) = 2
  THEN {u \in Threads : pc[u] # "idle" /\ call[u].port = call[t].arg[call[t].i]}
  ELSE {}

\* thread t cannot take its next step: the lock it requests is not free
Blocked(t) ==
  \/ Wanted(t) = 3 /\ UserLocked(call[t].arc)
  \/ Wanted(t) = 2 /\ PortLocked(call[t].arg[call[t].i])

\* the threads thread t waits for, directly or through others
RECURSIVE WaitChain(_, _)
WaitChain(S, n) ==
  IF n = 0 THEN S
  ELSE WaitChain(S \cup UNION {WaitsFor(u) : u \in S}, n - 1)

\* C26: the locks are requested in one order (a thread requests a lock only
\* while holding locks that come before it), a thread that cannot proceed
\* waits for a lock another thread holds, no thread waits for itself through
\* a chain of such waits, and the chain ends at a thread that can proceed.
C26_NoDeadlock ==
  \A t \in Threads :
    /\ Wanted(t) # 0 => \A r \in Held(t) : r < Wanted(t)
    /\ Blocked(t) =>
         /\ WaitsFor(t) # {}
         /\ t \notin WaitChain(WaitsFor(t), NumThreads)
         /\ \E u \in WaitChain(WaitsFor(t), NumThreads) : pc[u] # "idle" /\ ~Blocked(u)

\* shutdown, holding the Module Context, waits in its second pass for the
\* lock of a Link whose import is executing its callback
C26_Witness ==
  \E t, u \in Threads :
    /\ pc[t] = "sd_clear" /\ Blocked(t)
    /\ pc[u] = "im_cb" /\ u \in WaitsFor(t)

\* the Links the shutdown served by thread t iterates over
ShutdownLinks(t) == {call[t].arg[i] : i \in 1..Len(call[t].arg)}

\* shutdown has just been called while the Link map holds an unbound Link
C27_CalledWithUnbound ==
  /\ ev = Ev("shutdown", "call", "-")
  /\ \E p \in Registered : ~portObjs[p].rto

\* shutdown has just faulted in its first pass
C27_FaultedInFirstPass == ev = Ev("shutdown", "disable", "fault")

\* C27 as stated: a shutdown called while the Link map holds an unbound Link
\* faults in its first pass.
C27_UnboundAtCallFaults == C27_CalledWithUnbound ~> C27_FaultedInFirstPass

\* C27, amended: a shutdown whose first pass reaches a Link that is unbound
\* faults there, and with that fault no registry has been cleared, the user
\* instance is still held, the Link map is as it was and no signal is sent;
\* a shutdown gets past its first pass only with every Link of the map
\* bound; and a shutdown called while the map holds an unbound Link faults
\* in its first pass unless every Link of the map has been bound meanwhile.
C27_UnboundLinkFaultsFirstPass ==
  /\ [][\A t \in Threads :
          /\ (pc[t] = "sd_disable" /\ (pc'[t] # pc[t] \/ call'[t] # call[t])) =>
               IF HasRtoContext(call[t].arg[call[t].i])
               THEN ev' = Ev("shutdown", "disable", "-")
               ELSE /\ ev' = Ev("shutdown", "disable", "fault")
                    /\ pc'[t] = "idle"
                    /\ UNCHANGED <<portObjs, user_context, ports, main_pc>>
                    /\ \A p \in Links : ~portObjs[p].cleared
                    /\ user_context # 0
                    /\ ShutdownLinks(t) = Registered
          /\ pc'[t] \in {"sd_clear", "sd_drop", "sd_send"} =>
               \A p \in ShutdownLinks(t)' : portObjs'[p].rto]_vars
  /\ C27_CalledWithUnbound
       ~> (C27_FaultedInFirstPass \/ \A p \in Registered : portObjs[p].rto)

\* shutdown has faulted at an unbound Link after it had disabled the
\* tracking of another Link of the map
C27_Witness ==
  /\ C27_FaultedInFirstPass
  /\ user_context # 0
  /\ \E p, q \in Registered :
       /\ ~portObjs[p].rto
       /\ portObjs[q].rto /\ ~portObjs[q].gc /\ ~portObjs[q].cleared

\* C28: create_port on a Module Context that holds no user instance faults
\* and leaves the Link map and the Links as they were; every Link in the map
\* was created under the instance the Module Context holds and has its weak
\* reference to it, so a non-empty map comes with an instance.
C28_NoPortWithoutInstance ==
  [][/\ (ev'.op = "create_port" /\ user_context = 0) =>
          (ev'.res = "fault" /\ ports' = ports /\ portObjs' = portObjs)
     /\ \A p \in Registered' :
          /\ user_context' # 0
          /\ portObjs'[p].user = user_context'
          /\ Alive(portObjs[p].user)']_vars

\* create_port has faulted on a module that was shut down: the instance is
\* gone, the map is empty, the Links created earlier still exist
C28_Witness ==
  /\ ev = Ev("create_port", "unwrap", "fault")
  /\ user_context = 0 /\ next_inst > 0
  /\ Registered = {} /\ Len(portObjs) > 0

\* C29: on a Module Context built by create_foundry_module the whole
\* lifecycle runs without fault: the module starts with its user instance
\* and a Staging Pool of one object per descriptor, create_port and
\* finish_bootstrap return normally on it, and its first shutdown, with a
\* user instance and every Link of the map bound, returns normally although
\* nothing waits for the shutdown signal.
C29_FoundryModuleLifecycle ==
  [][origin = "create_foundry_module" =>
       /\ (ev.op = "init" /\ ev'.op = "create_port") => ev'.res = "ok"
       /\ (ev.op = "init" /\ ev'.op = "finish_bootstrap") => ev'.res = "ok"
       /\ \A t \in Threads :
            (call[t].op = "shutdown" /\ next_inst = 1
               /\ pc[t] = "sd_send" /\ pc'[t] # "sd_send")
              => ev'.res # "fault"]_vars

====
